---------------------------- MODULE Spec2Model ----------------------------
(***************************************************************************)
(* jest-environment-vite: the ViteEnvironment test environment and its     *)
(* render function (packages/jest-environment-vite/src/index.js).          *)
(*                                                                         *)
(* Source text is modelled as a sequence of one-character strings, so that *)
(* template interpolation, join("\n") and startsWith are computed on the   *)
(* characters.  The environment object is driven by the test runner, which *)
(* calls setup() once and teardown() once after it; global.render is       *)
(* installed by the constructor and can be called by test code at any      *)
(* time, also without awaiting an earlier call.                            *)
(***************************************************************************)
EXTENDS Naturals, Sequences, FiniteSets

VARIABLES
    driver,       \* this.global.driver: "unset", "live" or "quit"
    server,       \* this.server: "unset", "running" or "stopped"
    coverageMap,  \* this.coverageMap: [defined, data]
    containers,   \* this.containers: [defined, items]
    setupPc,      \* position of the setup() call
    teardownPc,   \* position of the teardown() call
    reports,      \* what reporter.write has been given, in order
    calls,        \* the calls of global.render, by call number
    inFlight,     \* calls whose executeAsyncScript is pending on the driver
    document,     \* the containers appended to document.body, in order
    merges,       \* number of coverageMap.merge calls made so far
    data,         \* the argument of the latest render call
    script,       \* the script body that call synthesized from it
    coverage,     \* the coverage the latest completion callback delivered
    envs          \* two environment instances side by side, by instance

vars == <<driver, server, coverageMap, containers, setupPc, teardownPc, reports,
          calls, inFlight, document, merges, data, script, coverage, envs>>

\* Bounds of the model.
MaxCalls == 2
MaxImports == 2
MaxHits == 2
MaxRenders == 2

(***************************************************************************)
(* Source text                                                             *)
(***************************************************************************)

\* index.js:86  `async () => {`
LineOpen ==
    <<"a","s","y","n","c"," ","(",")"," ","=",">"," ","{">>

\* index.js:87  the rendering-library binding
LineReact ==
    <<"c","o","n","s","t"," ","R","e","a","c","t"," ","="," ","(","a","w","a","i","t"," ","i",
       "m","p","o","r","t","(","\"","/","n","o","d","e","_","m","o","d","u","l","e","s","/","r",
       "e","a","c","t",".","j","s","\"",")",")",".","d","e","f","a","u","l","t",";">>

\* index.js:88  the DOM-renderer binding
LineReactDOM ==
    <<"c","o","n","s","t"," ","R","e","a","c","t","D","O","M"," ","="," ","(","a","w","a","i",
       "t"," ","i","m","p","o","r","t","(","\"","/","n","o","d","e","_","m","o","d","u","l","e",
       "s","/","r","e","a","c","t","-","d","o","m",".","j","s","\"",")",")",".","d","e","f","a",
       "u","l","t",";">>

\* index.js:90  creation of the container element
LineContainer ==
    <<"c","o","n","s","t"," ","c","o","n","t","a","i","n","e","r"," ","="," ","d","o","c","u",
       "m","e","n","t",".","c","r","e","a","t","e","E","l","e","m","e","n","t","(","\"","c","o",
       "n","t","a","i","n","e","r","\"",")",";">>

\* index.js:91  attachment of the container to the document body
LineAppend ==
    <<"d","o","c","u","m","e","n","t",".","b","o","d","y",".","a","p","p","e","n","d","C","h",
       "i","l","d","(","c","o","n","t","a","i","n","e","r",")",";">>

\* index.js:95,97  the text both forms of the element statement start with
ElementOpen ==
    <<"c","o","n","s","t"," ","e","l","e","m","e","n","t"," ","="," ">>

\* index.js:100  the DOM-renderer invocation with the completion callback
LineRender ==
    <<"R","e","a","c","t","D","O","M",".","r","e","n","d","e","r","(","e","l","e","m","e","n",
       "t",","," ","c","o","n","t","a","i","n","e","r",","," ","(",")"," ","=",">"," ","c","a",
       "l","l","b","a","c","k","(","{","c","o","n","t","a","i","n","e","r",":"," ","c","o","n",
       "t","a","i","n","e","r",","," ","c","o","v","e","r","a","g","e",":"," ","w","i","n","d",
       "o","w",".","_","_","c","o","v","e","r","a","g","e","_","_","}",")",")",";">>

\* index.js:101  `}`
LineClose ==
    <<"}">>

\* index.js:94  the argument of startsWith
ThunkPrefix ==
    <<"(",")"," ","=",">">>

\* an entry of data.imports, as in the example of index.js:64
ImportFoo ==
    <<"c","o","n","s","t"," ","F","o","o"," ","="," ","(","a","w","a","i","t"," ","i","m","p",
       "o","r","t","(","\"",".","/","f","o","o",".","j","s","\"",")",")",".","d","e","f","a","u",
       "l","t",";">>

\* an entry of data.imports that uses a name bound by an earlier entry
ImportBar ==
    <<"c","o","n","s","t"," ","B","a","r"," ","="," ","F","o","o",".","B","a","r",";">>

\* data.code: a direct markup expression (index.js:63)
CodeElement ==
    <<"<","F","o","o","/",">">>

\* data.code: a thunk written with the prefix `() =>`
CodeThunk ==
    <<"(",")"," ","=",">"," ","<","F","o","o","/",">">>

\* data.code: a thunk written without the blanks of the prefix
CodeTightThunk ==
    <<"(",")","=",">","<","F","o","o","/",">">>

\* data.code: starts with the prefix, yet is a sequence expression, not a thunk
CodeSequence ==
    <<"(",")"," ","=",">"," ","1",","," ","<","F","o","o","/",">">>

\* data.code: a call expression, which itself ends in `()`
CodeCall ==
    <<"(","F","o","o",")","(",")">>

\* data.code: markup that does not parse
CodeBroken ==
    <<"<","F","o","o">>
(***************************************************************************)
(* Script synthesis and compilation: the synchronous part of render        *)
(***************************************************************************)

\* String.prototype.startsWith
startsWith(s, prefix) ==
    /\ Len(s) >= Len(prefix)
    /\ SubSeq(s, 1, Len(prefix)) = prefix

\* Array.prototype.join
RECURSIVE join(_, _)
join(lines, sep) ==
    IF lines = <<>> THEN <<>>
    ELSE IF Len(lines) = 1 THEN lines[1]
    ELSE lines[1] \o sep \o join(Tail(lines), sep)

\* The lines of `text`, cut at every line break.
RECURSIVE split(_)
split(text) ==
    IF \A i \in 1..Len(text) : text[i] # "\n" THEN <<text>>
    ELSE LET k == CHOOSE i \in 1..Len(text) :
                      text[i] = "\n" /\ \A j \in 1..(i - 1) : text[j] # "\n"
         IN  <<SubSeq(text, 1, k - 1)>> \o split(SubSeq(text, k + 1, Len(text)))

\* The entries spread in reverse order.
ImportLinesReversed(d) == [i \in 1..Len(d.imports) |-> d.imports[Len(d.imports) + 1 - i]]

\* `...data.imports` inside the array literal
ImportLines(d) == d.imports

\* A test that ignores the blanks of the prefix: startsWith("()").
IsThunkLoose(code) == startsWith(code, <<"(", ")">>)

\* The condition of the if statement: data.code.startsWith("() =>")
IsThunk(code) == startsWith(code, ThunkPrefix)

\* The statement pushed by whichever branch of the if statement is taken.
ElementLine(code) ==
    IF IsThunk(code)
    THEN ElementOpen \o <<"(">> \o code \o <<")", "(", ")", ";">>
    ELSE ElementOpen \o code \o <<";">>

\* The element statement put before the import entries.
ScriptLinesElementFirst(d) ==
    <<LineOpen, LineReact, LineReactDOM>> \o <<ElementLine(d.code)>>
        \o ImportLines(d) \o <<LineContainer, LineAppend>>
        \o <<LineRender, LineClose>>

\* `lines` once both push calls after the if statement have run.
ScriptLines(d) ==
    <<LineOpen, LineReact, LineReactDOM>> \o ImportLines(d)
        \o <<LineContainer, LineAppend>> \o <<ElementLine(d.code)>>
        \o <<LineRender, LineClose>>

\* What render builds from `data` before it calls transformSync.  Spreading
\* an undefined data.imports and calling startsWith on an undefined data.code
\* both throw a TypeError.
Synthesize(d) ==
    IF "imports" \notin d.has THEN [err |-> "TypeError", text |-> <<>>]
    ELSE IF "code" \notin d.has THEN [err |-> "TypeError", text |-> <<>>]
    ELSE [err |-> "none", text |-> join(ScriptLines(d), <<"\n">>)]

NoScript == [err |-> "none", text |-> <<>>]

\* Element statements the transformer cannot parse: an empty expression and
\* unterminated markup.
Unparsable ==
    { ElementOpen \o <<";">>, ElementOpen \o CodeBroken \o <<";">> }

\* transformSync of @babel/core: a syntax error or the compiled code, which
\* ends in the `;` of an expression statement.  The lowering of markup to
\* createElement calls is not modelled: nothing on the host reads the code.
transformSync(text) ==
    IF \E i \in 1..Len(split(text)) : split(text)[i] \in Unparsable
    THEN [err |-> "CompileError", code |-> <<>>]
    ELSE [err |-> "none", code |-> text \o <<";">>]

\* The throw of transformSync caught and the script body sent as it is.
PrepareSwallowsCompileError(d) ==
    LET s == Synthesize(d)
    IN  [err |-> s.err, text |-> s.text, code |-> s.text]

\* render up to the call of driver.executeAsyncScript: the error thrown, if
\* any, the script body and the compiled code.
Prepare(d) ==
    LET s == Synthesize(d)
        t == transformSync(s.text)
    IN  IF s.err # "none" THEN [err |-> s.err, text |-> s.text, code |-> <<>>]
        ELSE [err |-> t.err, text |-> s.text, code |-> t.code]

(***************************************************************************)
(* Render requests                                                         *)
(***************************************************************************)

Codes == {CodeElement, CodeThunk, CodeTightThunk, CodeSequence, CodeCall,
          CodeBroken, <<>>}

ImportStatements == {ImportFoo, ImportBar}

ImportSeqs == UNION {[1..n -> ImportStatements] : n \in 0..MaxImports}

\* Every request: a field render reads may be missing (undefined).
AllRequests ==
    { r \in [has : SUBSET {"code", "imports"}, code : Codes, imports : ImportSeqs] :
          /\ "code" \notin r.has => r.code = <<>>
          /\ "imports" \notin r.has => r.imports = <<>> }

\* The requests the test code of the lifecycle model makes.
TestRequests ==
    { [has |-> {"code", "imports"}, code |-> CodeElement, imports |-> <<ImportFoo>>],
      [has |-> {"code", "imports"}, code |-> CodeThunk, imports |-> <<>>],
      [has |-> {"code", "imports"}, code |-> CodeBroken, imports |-> <<>>],
      [has |-> {"imports"}, code |-> <<>>, imports |-> <<>>] }

NoRequest == [has |-> {}, code |-> <<>>, imports |-> <<>>]

(***************************************************************************)
(* Coverage                                                                *)
(***************************************************************************)

\* istanbulLibCoverage.createCoverageMap({}): no file has an entry.
EmptyMap == [f \in {} |-> 0]

\* The files the browser may have instrumented, and the counters kept for
\* each: one statement counter and one branch counter.
Files == {"foo.js", "bar.js"}

Counters == {"s", "b"}

\* Hit counts by file and counter.
FileCoverage(F, n) == [F -> [Counters -> 0..n]]

\* window.__coverage__ is not there: the callback delivers no coverage.
NoCoverage == [defined |-> FALSE, data |-> EmptyMap]

\* What window.__coverage__ can hold when the callback fires: nothing, or
\* hit counts by file.
Snapshots ==
    { NoCoverage,
      [defined |-> TRUE, data |-> [f \in {"foo.js"} |-> [k \in Counters |-> 1]]],
      [defined |-> TRUE,
       data |-> [f \in Files |-> [k \in Counters |->
                    IF f = "foo.js" /\ k = "s" THEN 2 ELSE 0]]] }

\* Every value of window.__coverage__ with hit counts up to MaxHits.
AllSnapshots ==
    {NoCoverage} \cup
    { [defined |-> TRUE, data |-> m] :
        m \in UNION {FileCoverage(F, MaxHits) : F \in SUBSET Files} }

\* A merge that keeps the larger count of a file in both.
MergeKeepsLarger(map, snapshot) ==
    LET s == IF snapshot.defined THEN snapshot.data ELSE EmptyMap
    IN  [f \in DOMAIN map \cup DOMAIN s |->
            IF f \notin DOMAIN map THEN s[f]
            ELSE IF f \notin DOMAIN s THEN map[f]
            ELSE [k \in Counters |->
                     IF map[f][k] >= s[f][k] THEN map[f][k] ELSE s[f][k]]]

\* CoverageMap.merge: an undefined argument is an empty map; a file in one
\* of the two only is taken over, the hit counts of a file in both are added
\* counter by counter.
Merge(map, snapshot) ==
    LET s == IF snapshot.defined THEN snapshot.data ELSE EmptyMap
    IN  [f \in DOMAIN map \cup DOMAIN s |->
            IF f \notin DOMAIN map THEN s[f]
            ELSE IF f \notin DOMAIN s THEN map[f]
            ELSE [k \in Counters |-> map[f][k] + s[f][k]]]

\* The formats given to reporter.addAll
ReportFormats == {"json", "text", "lcov"}

(***************************************************************************)
(* The environment                                                         *)
(***************************************************************************)

CallIds == 1..MaxCalls

\* The instances of the two-instance model.
EnvIds == {1, 2}

\* An instance as its constructor leaves it: no session, no coverage map,
\* no render call pending, none made.
NewEnv ==
    [driver |-> "unset", coverageMap |-> [defined |-> FALSE, data |-> EmptyMap],
     awaiting |-> FALSE, renders |-> 0]

NoEnvs == [e \in EnvIds |-> NewEnv]

IdleCall ==
    [pc |-> "idle", calledIn |-> "none", afterTimeout |-> FALSE, issued |-> FALSE,
     hasMap |-> FALSE, error |-> "none", delivered |-> 0, result |-> 0]

\* The lifecycle state of the environment, read off its fields and the
\* positions of setup() and teardown().
Lifecycle ==
    IF teardownPc = "awaitSuper" THEN "TearingDown"
    ELSE IF driver = "quit" THEN "Closed"
    ELSE IF setupPc = "awaitSuper" THEN "SettingUp"
    ELSE IF driver = "live" THEN "Ready"
    ELSE "Uninitialized"

\* new ViteEnvironment(config): global.render is installed, nothing else is.
Init ==
    /\ driver = "unset"
    /\ server = "unset"
    /\ coverageMap = [defined |-> FALSE, data |-> EmptyMap]
    /\ containers = [defined |-> FALSE, items |-> <<>>]
    /\ setupPc = "idle"
    /\ teardownPc = "idle"
    /\ reports = <<>>
    /\ calls = [c \in CallIds |-> IdleCall]
    /\ inFlight = {}
    /\ document = <<>>
    /\ merges = 0
    /\ data = NoRequest
    /\ script = NoScript
    /\ coverage = NoCoverage
    /\ envs = NoEnvs

\* setup() is called and suspends at `await super.setup()`.
SetupBegin ==
    /\ setupPc = "idle"
    /\ teardownPc = "idle"
    /\ setupPc' = "awaitSuper"
    /\ UNCHANGED <<driver, server, coverageMap, containers, teardownPc, reports,
                   calls, inFlight, document, merges, data, script, coverage, envs>>

\* super.setup() resolves, leaving the session in global.driver as its last
\* step, and the rest of setup() runs in the same turn.
SetupFinish ==
    /\ setupPc = "awaitSuper"
    /\ driver' = "live"
    /\ server' = "running"
    /\ coverageMap' = [defined |-> TRUE, data |-> EmptyMap]
    /\ containers' = [defined |-> TRUE, items |-> <<>>]
    /\ setupPc' = "done"
    /\ UNCHANGED <<teardownPc, reports, calls, inFlight, document, merges, data,
                   script, coverage, envs>>

\* teardown() is called and suspends at `await super.teardown()`.
TeardownBegin ==
    /\ setupPc = "done"
    /\ teardownPc = "idle"
    /\ teardownPc' = "awaitSuper"
    /\ UNCHANGED <<driver, server, coverageMap, containers, setupPc, reports,
                   calls, inFlight, document, merges, data, script, coverage, envs>>

\* One write per format instead of one write of all three.
WriteReportPerFormat ==
    reports' = reports \o [i \in 1..3 |-> [map |-> coverageMap, formats |-> ReportFormats]]

\* reporter.write(this.coverageMap) of a reporter holding json, text and lcov
WriteReport == reports' = Append(reports, [map |-> coverageMap, formats |-> ReportFormats])

\* The report written before super.teardown() is awaited: a write that throws
\* leaves the session open.
TeardownBodyReportFirst(written) ==
    /\ WriteReport
    /\ IF written
       THEN driver' = "quit" /\ server' = "stopped" /\ teardownPc' = "done"
       ELSE driver' = driver /\ server' = server /\ teardownPc' = "failed"

\* super.teardown() left out: the session is never quit.
TeardownBodyKeepsSession(written) ==
    /\ driver' = driver
    /\ WriteReport
    /\ IF written
       THEN server' = "stopped" /\ teardownPc' = "done"
       ELSE server' = server /\ teardownPc' = "failed"

\* The body of teardown(): super.teardown() has quit the session; the report
\* is written, and unless writing threw the server is stopped.
TeardownBody(written) ==
    /\ driver' = "quit"
    /\ WriteReport
    /\ IF written
       THEN server' = "stopped" /\ teardownPc' = "done"
       ELSE server' = server /\ teardownPc' = "failed"

\* super.teardown() resolves and the rest of teardown() runs in the same turn.
TeardownFinish ==
    /\ teardownPc = "awaitSuper"
    /\ \E written \in BOOLEAN : TeardownBody(written)
    /\ UNCHANGED <<coverageMap, containers, setupPc, calls, inFlight, document,
                   merges, data, script, coverage, envs>>

\* Was any earlier call rejected by the script timeout?
TimedOutBefore == \E b \in CallIds : calls[b].error = "TimeoutError"

\* A timeout handler that gives the session up.
RejectQuitsOnTimeout(c, err) ==
    /\ calls' = [calls EXCEPT ![c].pc = "failed", ![c].error = err,
                              ![c].calledIn = IF @ = "none" THEN Lifecycle ELSE @,
                              ![c].afterTimeout = IF calls[c].pc = "idle"
                                                  THEN TimedOutBefore ELSE @]
    /\ driver' = IF err = "TimeoutError" THEN "quit" ELSE driver
    /\ UNCHANGED <<server, coverageMap, containers, setupPc, teardownPc,
                   reports, merges>>

\* An error handler that starts the coverage map afresh.
RejectResetsCoverage(c, err) ==
    /\ calls' = [calls EXCEPT ![c].pc = "failed", ![c].error = err,
                              ![c].calledIn = IF @ = "none" THEN Lifecycle ELSE @,
                              ![c].afterTimeout = IF calls[c].pc = "idle"
                                                  THEN TimedOutBefore ELSE @]
    /\ coverageMap' = [coverageMap EXCEPT !.data = EmptyMap]
    /\ UNCHANGED <<driver, server, containers, setupPc, teardownPc,
                   reports, merges>>

\* A render call rejects with `err`: nothing catches the error and nothing
\* but the call itself changes.
Reject(c, err) ==
    /\ calls' = [calls EXCEPT ![c].pc = "failed", ![c].error = err,
                              ![c].calledIn = IF @ = "none" THEN Lifecycle ELSE @,
                              ![c].afterTimeout = IF calls[c].pc = "idle"
                                                  THEN TimedOutBefore ELSE @]
    /\ UNCHANGED <<driver, server, coverageMap, containers, setupPc, teardownPc,
                   reports, merges>>

\* driver.executeAsyncScript(script, code): the command is pending on the
\* session until the callback, an error or the timeout.
Issue(c) ==
    /\ inFlight' = inFlight \cup {c}
    /\ calls' = [calls EXCEPT ![c].pc = "awaiting", ![c].issued = TRUE,
                              ![c].hasMap = coverageMap.defined,
                              ![c].calledIn = Lifecycle,
                              ![c].afterTimeout = TimedOutBefore]
    /\ UNCHANGED <<driver, server, coverageMap, containers, setupPc, teardownPc,
                   reports, merges>>

\* executeAsyncScript called whether or not there is a driver.
RenderCallWithoutDriver(c, d) ==
    /\ calls[c].pc = "idle"
    /\ \A b \in CallIds : b < c => calls[b].pc # "idle"
    /\ data' = d
    /\ script' = Synthesize(d)
    /\ LET p == Prepare(d)
       IN  IF p.err # "none" THEN Reject(c, p.err) /\ inFlight' = inFlight
           ELSE Issue(c)
    /\ UNCHANGED <<document, coverage, envs>>

\* global.render(d), up to its await: the arguments this.global.driver and
\* this.coverageMap are read, the script is synthesized and compiled, and
\* executeAsyncScript is called on the driver.
RenderCall(c, d) ==
    /\ calls[c].pc = "idle"
    /\ \A b \in CallIds : b < c => calls[b].pc # "idle"
    /\ data' = d
    /\ script' = Synthesize(d)
    /\ LET p == Prepare(d)
       IN  IF p.err # "none" THEN Reject(c, p.err) /\ inFlight' = inFlight
           ELSE IF driver = "unset" THEN Reject(c, "TypeError") /\ inFlight' = inFlight
           ELSE Issue(c)
    /\ UNCHANGED <<document, coverage, envs>>

\* A settled command left in the pending set.
SettleKeepsPending(c) == inFlight' = inFlight

\* The command of call c is no longer pending on the session.
Settle(c) == inFlight' = inFlight \ {c}

\* The container attached in place of those already there.
AttachReplacing == document' = <<Len(document) + 1>>

\* The script has run as far as createElement and appendChild.
Attach == document' = Append(document, Len(document) + 1)

\* The container returned without the merge.
ResumeWithoutMerge(c, container, snapshot) ==
    /\ calls' = [calls EXCEPT ![c].pc = "returned", ![c].delivered = container,
                              ![c].result = container]
    /\ UNCHANGED <<driver, server, coverageMap, containers, setupPc,
                   teardownPc, reports, merges>>

\* The first container of the document returned instead of the delivered one.
ResumeReturnsFirst(c, container, snapshot) ==
    /\ coverageMap' = [coverageMap EXCEPT !.data = Merge(@, snapshot)]
    /\ merges' = merges + 1
    /\ calls' = [calls EXCEPT ![c].pc = "returned", ![c].delivered = container,
                              ![c].result = 1]
    /\ UNCHANGED <<driver, server, containers, setupPc, teardownPc, reports>>

\* A merge that throws when there is no coverage to merge.
ResumeRequiresCoverage(c, container, snapshot) ==
    IF calls[c].hasMap /\ snapshot.defined
    THEN /\ coverageMap' = [coverageMap EXCEPT !.data = Merge(@, snapshot)]
         /\ merges' = merges + 1
         /\ calls' = [calls EXCEPT ![c].pc = "returned", ![c].delivered = container,
                                   ![c].result = container]
         /\ UNCHANGED <<driver, server, containers, setupPc, teardownPc, reports>>
    ELSE /\ calls' = [calls EXCEPT ![c].pc = "failed", ![c].error = "TypeError",
                                   ![c].delivered = container]
         /\ UNCHANGED <<driver, server, coverageMap, containers, setupPc,
                        teardownPc, reports, merges>>

\* The rest of render once executeAsyncScript has resolved with
\* {container, coverage}: the merge, then the return of the container.
Resume(c, container, snapshot) ==
    IF calls[c].hasMap
    THEN /\ coverageMap' = [coverageMap EXCEPT !.data = Merge(@, snapshot)]
         /\ merges' = merges + 1
         /\ calls' = [calls EXCEPT ![c].pc = "returned", ![c].delivered = container,
                                   ![c].result = container]
         /\ UNCHANGED <<driver, server, containers, setupPc, teardownPc, reports>>
    ELSE /\ calls' = [calls EXCEPT ![c].pc = "failed", ![c].error = "TypeError",
                                   ![c].delivered = container]
         /\ UNCHANGED <<driver, server, coverageMap, containers, setupPc,
                        teardownPc, reports, merges>>

\* A result that reaches the host although the session has been quit.
RenderCallbackAfterQuit(c, snapshot) ==
    /\ calls[c].pc = "awaiting"
    /\ c \in inFlight
    /\ driver \in {"live", "quit"}
    /\ Attach
    /\ Settle(c)
    /\ Resume(c, Len(document) + 1, snapshot)
    /\ coverage' = snapshot
    /\ UNCHANGED <<data, script, envs>>

\* The browser runs the script of call c and its completion callback fires.
RenderCallback(c, snapshot) ==
    /\ calls[c].pc = "awaiting"
    /\ c \in inFlight
    /\ driver = "live"
    /\ Attach
    /\ Settle(c)
    /\ Resume(c, Len(document) + 1, snapshot)
    /\ coverage' = snapshot
    /\ UNCHANGED <<data, script, envs>>

\* The callback does not fire within the script timeout of the session.
RenderTimeout(c, attached) ==
    /\ calls[c].pc = "awaiting"
    /\ c \in inFlight
    /\ driver = "live"
    /\ IF attached THEN Attach ELSE document' = document
    /\ Settle(c)
    /\ Reject(c, "TimeoutError")
    /\ UNCHANGED <<data, script, coverage, envs>>

\* The script throws in the browser before it calls back.
RenderRemoteError(c, attached) ==
    /\ calls[c].pc = "awaiting"
    /\ c \in inFlight
    /\ driver = "live"
    /\ IF attached THEN Attach ELSE document' = document
    /\ Settle(c)
    /\ Reject(c, "RemoteExecutionError")
    /\ UNCHANGED <<data, script, coverage, envs>>

\* The session cannot be reached, or has been quit.
RenderSessionError(c) ==
    /\ calls[c].pc = "awaiting"
    /\ c \in inFlight
    /\ Settle(c)
    /\ Reject(c, "SessionError")
    /\ UNCHANGED <<document, data, script, coverage, envs>>

Next ==
    \/ SetupBegin
    \/ SetupFinish
    \/ TeardownBegin
    \/ TeardownFinish
    \/ \E c \in CallIds, d \in TestRequests : RenderCall(c, d)
    \/ \E c \in CallIds, s \in Snapshots : RenderCallback(c, s)
    \/ \E c \in CallIds, a \in BOOLEAN : RenderTimeout(c, a)
    \/ \E c \in CallIds, a \in BOOLEAN : RenderRemoteError(c, a)
    \/ \E c \in CallIds : RenderSessionError(c)

Spec == Init /\ [][Next]_vars

(***************************************************************************)
(* Script synthesis on its own, over every request                         *)
(***************************************************************************)

SynthInit ==
    /\ driver = "unset"
    /\ server = "unset"
    /\ coverageMap = [defined |-> FALSE, data |-> EmptyMap]
    /\ containers = [defined |-> FALSE, items |-> <<>>]
    /\ setupPc = "idle"
    /\ teardownPc = "idle"
    /\ reports = <<>>
    /\ calls = [c \in CallIds |-> IdleCall]
    /\ inFlight = {}
    /\ document = <<>>
    /\ merges = 0
    /\ data \in AllRequests
    /\ script = NoScript
    /\ coverage = NoCoverage
    /\ envs = NoEnvs

\* The synthesis step of render, applied to the request on its own.
SynthStep ==
    /\ script = NoScript
    /\ script' = Synthesize(data)
    /\ UNCHANGED <<driver, server, coverageMap, containers, setupPc, teardownPc,
                   reports, calls, inFlight, document, merges, data, coverage,
                   envs>>

SynthNext == SynthStep

SynthSpec == SynthInit /\ [][SynthNext]_vars

(***************************************************************************)
(* coverageMap.merge on its own: one snapshot merged into an empty map     *)
(***************************************************************************)

MergeInit ==
    /\ driver = "unset"
    /\ server = "unset"
    /\ coverageMap = [defined |-> TRUE, data |-> EmptyMap]
    /\ containers = [defined |-> FALSE, items |-> <<>>]
    /\ setupPc = "idle"
    /\ teardownPc = "idle"
    /\ reports = <<>>
    /\ calls = [c \in CallIds |-> IdleCall]
    /\ inFlight = {}
    /\ document = <<>>
    /\ merges = 0
    /\ data = NoRequest
    /\ script = NoScript
    /\ coverage \in AllSnapshots
    /\ envs = NoEnvs

\* coverageMap.merge(coverage), applied a first and a second time.
MergeStep ==
    /\ merges < 2
    /\ coverageMap' = [coverageMap EXCEPT !.data = Merge(@, coverage)]
    /\ merges' = merges + 1
    /\ UNCHANGED <<driver, server, containers, setupPc, teardownPc, reports, calls,
                   inFlight, document, data, script, coverage, envs>>

MergeNext == MergeStep

MergeSpec == MergeInit /\ [][MergeNext]_vars

(***************************************************************************)
(* Two environment instances in one process                                *)
(***************************************************************************)

\* One coverage map for the whole module instead of one per instance.
MapOfModule(e) == 1

\* The instance whose coverage map the methods and the render closure of
\* instance e reach as `this.coverageMap`.
MapOf(e) == e

\* setup() of instance e, from its call to its return.
PairSetup(e) ==
    /\ envs[e].driver = "unset"
    /\ envs' = [envs EXCEPT ![e].driver = "live",
                            ![MapOf(e)].coverageMap = [defined |-> TRUE, data |-> EmptyMap]]
    /\ UNCHANGED <<driver, server, coverageMap, containers, setupPc, teardownPc,
                   reports, calls, inFlight, document, merges, data, script,
                   coverage>>

\* global.render of instance e is called and reaches its await.
PairCall(e) ==
    /\ envs[e].driver = "live"
    /\ ~envs[e].awaiting
    /\ envs[e].renders < MaxRenders
    /\ envs' = [envs EXCEPT ![e].awaiting = TRUE]
    /\ UNCHANGED <<driver, server, coverageMap, containers, setupPc, teardownPc,
                   reports, calls, inFlight, document, merges, data, script,
                   coverage>>

\* The callback of that call fires: the coverage is merged and the call
\* returns.
PairCallback(e, snapshot) ==
    /\ envs[e].driver = "live"
    /\ envs[e].awaiting
    /\ envs' = [envs EXCEPT ![e].awaiting = FALSE,
                            ![e].renders = @ + 1,
                            ![MapOf(e)].coverageMap.data = Merge(@, snapshot)]
    /\ UNCHANGED <<driver, server, coverageMap, containers, setupPc, teardownPc,
                   reports, calls, inFlight, document, merges, data, script,
                   coverage>>

\* That call is rejected instead: nothing is merged.
PairReject(e) ==
    /\ envs[e].awaiting
    /\ envs' = [envs EXCEPT ![e].awaiting = FALSE, ![e].renders = @ + 1]
    /\ UNCHANGED <<driver, server, coverageMap, containers, setupPc, teardownPc,
                   reports, calls, inFlight, document, merges, data, script,
                   coverage>>

\* teardown() of instance e, from its call to its return.
PairTeardown(e) ==
    /\ envs[e].driver = "live"
    /\ envs' = [envs EXCEPT ![e].driver = "quit"]
    /\ UNCHANGED <<driver, server, coverageMap, containers, setupPc, teardownPc,
                   reports, calls, inFlight, document, merges, data, script,
                   coverage>>

PairNext ==
    \/ \E e \in EnvIds : PairSetup(e)
    \/ \E e \in EnvIds : PairCall(e)
    \/ \E e \in EnvIds, s \in Snapshots : PairCallback(e, s)
    \/ \E e \in EnvIds : PairReject(e)
    \/ \E e \in EnvIds : PairTeardown(e)

PairSpec == Init /\ [][PairNext]_vars

(***************************************************************************)
(* Properties                                                              *)
(***************************************************************************)

\* C1: every render call made once teardown has run (the environment is
\* Closed) fails with EnvironmentClosedError, without having called
\* executeAsyncScript on the session and without a result to merge.
C1_ClosedRenderRefused ==
    \A c \in CallIds :
        calls[c].calledIn = "Closed" =>
            /\ calls[c].pc = "failed"
            /\ calls[c].error = "EnvironmentClosedError"
            /\ ~calls[c].issued
            /\ calls[c].delivered = 0

\* C2: the lines of the synthesized script are the opening line and the two
\* library bindings, then the N entries of data.imports in their order, then
\* the five remaining lines: N + 8 lines, none of the entries dropped,
\* repeated or moved.
C2_ImportsKeptInOrder ==
    (script.err = "none" /\ script.text # <<>>) =>
        LET ls == split(script.text)
            n == Len(data.imports)
        IN  /\ Len(ls) = n + 8
            /\ SubSeq(ls, 1, 3) = <<LineOpen, LineReact, LineReactDOM>>
            /\ \A i \in 1..n : ls[3 + i] = data.imports[i]
            /\ ls[n + 4] = LineContainer
            /\ ls[n + 5] = LineAppend

\* C2 witness: a script synthesized from two different entries.
C2_Witness ==
    /\ script.err = "none" /\ script.text # <<>>
    /\ Len(data.imports) = 2
    /\ data.imports[1] # data.imports[2]

\* C3: the element statement of the synthesized script is
\* `const element = (code)();` exactly when the first five characters of
\* data.code are `() =>`, and `const element = code;` otherwise, whatever
\* the expression means.
C3_WrapIffPrefix ==
    (script.err = "none" /\ script.text # <<>>) =>
        LET ls == split(script.text)
            el == ls[Len(ls) - 2]
            code == data.code
            prefixed == /\ Len(code) >= 5
                        /\ code[1] = "(" /\ code[2] = ")" /\ code[3] = " "
                        /\ code[4] = "=" /\ code[5] = ">"
            wrapped == ElementOpen \o <<"(">> \o code \o <<")", "(", ")", ";">>
            direct == ElementOpen \o code \o <<";">>
        IN  /\ (el = wrapped) <=> prefixed
            /\ (el = direct) <=> ~prefixed

\* C3 witness: a script synthesized from code that starts with the prefix
\* and is not a thunk.
C3_Witness ==
    /\ script.err = "none" /\ script.text # <<>>
    /\ data.code = CodeSequence

\* The render calls whose remote execution completed: the callback delivered
\* a container.
Completed == {c \in CallIds : calls[c].delivered # 0}

\* C4: the coverage map is empty when setup has made it and nothing has been
\* merged, and the number of merges made equals the number of render calls
\* whose remote execution completed; each of those calls has returned (its
\* merge came before its return), and no other call has merged.
C4_OneMergePerCompletedRender ==
    /\ merges = Cardinality(Completed)
    /\ \A c \in Completed : calls[c].pc = "returned"
    /\ \A c \in CallIds : calls[c].pc = "returned" => c \in Completed
    /\ ~coverageMap.defined => merges = 0
    /\ (coverageMap.defined /\ merges = 0) => coverageMap.data = EmptyMap

\* C4 witness: one render completed and merged coverage, another one timed
\* out.
C4_Witness ==
    /\ merges = 1
    /\ coverageMap.data # EmptyMap
    /\ \E c \in CallIds : calls[c].error = "TimeoutError"

\* C5: once a render call has failed by timeout, the environment is Ready
\* as long as teardown has not been called, and a render call made after
\* the timeout whose remote execution calls back returns the container the
\* callback delivered.
C5_UsableAfterTimeout ==
    \A c \in CallIds :
        /\ (calls[c].error = "TimeoutError" /\ teardownPc = "idle")
               => Lifecycle = "Ready"
        /\ (calls[c].afterTimeout /\ calls[c].delivered # 0)
               => /\ calls[c].pc = "returned"
                  /\ calls[c].result = calls[c].delivered

\* C5 witness: a render call made after a timeout, in the Ready state, has
\* returned its container.
C5_Witness ==
    \E c \in CallIds :
        /\ calls[c].afterTimeout
        /\ calls[c].calledIn = "Ready"
        /\ calls[c].pc = "returned"
        /\ calls[c].result # 0

\* C6: a step in which a render call fails leaves the coverage map, the
\* session handle and the lifecycle state as they were, records the error
\* on that call and leaves no execution of it pending; a failed call is
\* never taken up again.
C6_FailureChangesNothing ==
    [][\A c \in CallIds :
          /\ (calls[c].pc # "failed" /\ calls'[c].pc = "failed") =>
                 /\ coverageMap' = coverageMap
                 /\ merges' = merges
                 /\ driver' = driver
                 /\ Lifecycle' = Lifecycle
                 /\ calls'[c].error # "none"
                 /\ c \notin inFlight'
                 /\ inFlight' \subseteq inFlight
          /\ calls[c].pc = "failed" => calls'[c] = calls[c]]_vars

\* C6 witness: a render failed in the browser after an earlier one had put
\* coverage into the map.
C6_Witness ==
    /\ coverageMap.defined /\ coverageMap.data # EmptyMap
    /\ \E c \in CallIds : calls[c].error = "RemoteExecutionError"

\* C7: once teardown has run, whether or not writing the report threw, the
\* session has been quit.
C7_SessionReleased == teardownPc \in {"done", "failed"} => driver = "quit"

\* C7 witness: writing the report threw and the session is quit.
C7_Witness == teardownPc = "failed" /\ driver = "quit"

\* C8: the report sink is called once, by teardown and by nothing else, with
\* the coverage map of the environment and the formats json, text and lcov.
C8_OneReportAtTeardown ==
    /\ Len(reports) = IF teardownPc \in {"done", "failed"} THEN 1 ELSE 0
    /\ \A i \in 1..Len(reports) :
          /\ reports[i].formats = {"json", "text", "lcov"}
          /\ reports[i].map = coverageMap

\* C8 witness: after setup and a render that merged coverage, teardown has
\* written the report.
C8_Witness ==
    /\ Len(reports) = 1
    /\ reports[1].map.data # EmptyMap
    /\ \E c \in CallIds : calls[c].pc = "returned"

\* The steps of the lifecycle.
LifecycleSteps ==
    { <<"Uninitialized", "SettingUp">>, <<"SettingUp", "Ready">>,
      <<"Ready", "TearingDown">>, <<"TearingDown", "Closed">> }

\* C9: the lifecycle state changes only by one step along Uninitialized,
\* SettingUp, Ready, TearingDown, Closed, and no step of a render call
\* changes it.
C9_LifecycleOrder ==
    [][/\ Lifecycle' # Lifecycle => <<Lifecycle, Lifecycle'>> \in LifecycleSteps
       /\ calls' # calls => Lifecycle' = Lifecycle]_vars

\* C9 witness: the environment is Closed after renders that returned and
\* renders that failed.
C9_Witness ==
    /\ Lifecycle = "Closed"
    /\ \E c \in CallIds : calls[c].pc = "returned"
    /\ \E c \in CallIds : calls[c].pc = "failed"

\* C10 as stated: at most one remote execution is pending on the session at
\* any time.
C10_AtMostOneInFlight == Cardinality(inFlight) <= 1

\* C10 as amended: render does not queue; the executions pending on the
\* session are exactly those of the calls that have reached
\* executeAsyncScript and have not settled, one per call, so at most one is
\* pending only while the caller has at most one call outstanding.
C10_OnePendingPerOutstandingCall ==
    /\ inFlight = {c \in CallIds : calls[c].pc = "awaiting"}
    /\ \A c \in inFlight : calls[c].issued
    /\ Cardinality({c \in CallIds : calls[c].pc = "awaiting"}) <= 1
           => Cardinality(inFlight) <= 1

\* C10 witness: two render calls made in the Ready state are pending on the
\* session together.
C10_Witness ==
    \E b, c \in inFlight :
        /\ b # c
        /\ calls[b].calledIn = "Ready" /\ calls[c].calledIn = "Ready"
        /\ driver = "live"

\* C11: a snapshot merged once into an empty map gives the snapshot's own
\* counts; merged a second time it gives, for every file and every counter
\* of the snapshot and for no other file, twice the snapshot's count.
C11_TwiceIsDouble ==
    LET s == IF coverage.defined THEN coverage.data ELSE EmptyMap
    IN  /\ merges = 1 => coverageMap.data = s
        /\ merges = 2 =>
               /\ DOMAIN coverageMap.data = DOMAIN s
               /\ \A f \in DOMAIN s : \A k \in Counters :
                      coverageMap.data[f][k] = 2 * s[f][k]

\* C11 witness: a snapshot with a counter that was hit and a counter that
\* was not has been merged twice.
C11_Witness ==
    /\ merges = 2
    /\ coverage.defined
    /\ \E f \in DOMAIN coverage.data : \E k \in Counters : coverage.data[f][k] > 0
    /\ \E f \in DOMAIN coverage.data : \E k \in Counters : coverage.data[f][k] = 0

\* C12: a request with no code, an empty code or no imports fails with
\* InvalidRequest at synthesis: no script body is built from it.
C12_MalformedIsInvalidRequest ==
    LET malformed == \/ "code" \notin data.has
                     \/ "imports" \notin data.has
                     \/ data.code = <<>>
    IN  (malformed /\ script # NoScript) =>
            /\ script.err = "InvalidRequest"
            /\ script.text = <<>>

\* C13: when the completion callback of a render call delivers a container
\* and no coverage, the call returns that container and the coverage map is
\* what it was.
C13_NoCoverageStillReturns ==
    [][\A c \in CallIds :
          (calls[c].delivered = 0 /\ calls'[c].delivered # 0 /\ ~coverage'.defined) =>
              /\ calls'[c].pc = "returned"
              /\ calls'[c].result # 0
              /\ calls'[c].result = calls'[c].delivered
              /\ coverageMap' = coverageMap]_vars

\* C13 witness: after a render that merged coverage, the latest callback
\* delivered none and both calls have returned.
C13_Witness ==
    /\ merges = 2
    /\ ~coverage.defined
    /\ coverageMap.data # EmptyMap
    /\ \A c \in 1..2 : calls[c].pc = "returned"

\* C14: the coverage map of an instance changes only in a step of that
\* instance, its own setup or the return of a render call made through it,
\* and such a step leaves every other instance as it was.
C14_OwnMapOnly ==
    [][\A e \in EnvIds :
          envs'[e].coverageMap # envs[e].coverageMap =>
              /\ \/ envs'[e].driver # envs[e].driver
                 \/ envs'[e].renders # envs[e].renders
              /\ \A o \in EnvIds \ {e} : envs'[o] = envs[o]]_vars

\* C14 witness: both instances have merged coverage and their maps differ.
C14_Witness ==
    /\ \A e \in EnvIds : envs[e].coverageMap.data # EmptyMap
    /\ envs[1].coverageMap # envs[2].coverageMap

\* C15: a render call whose synthesized script the transformer rejects
\* fails with CompileError in the step that calls it: executeAsyncScript is
\* not called, nothing becomes pending on the session and nothing is merged.
C15_CompileErrorStopsRender ==
    [][\A c \in CallIds :
          (/\ calls[c].pc = "idle" /\ calls'[c].pc # "idle"
           /\ script'.err = "none"
           /\ transformSync(script'.text).err = "CompileError") =>
              /\ calls'[c].pc = "failed"
              /\ calls'[c].error = "CompileError"
              /\ ~calls'[c].issued
              /\ inFlight' = inFlight
              /\ merges' = merges
              /\ coverageMap' = coverageMap]_vars

\* C15 witness: a render call made in the Ready state has failed with
\* CompileError.
C15_Witness ==
    \E c \in CallIds :
        /\ calls[c].calledIn = "Ready"
        /\ calls[c].error = "CompileError"
        /\ calls[c].pc = "failed"

\* C16: the lines of the synthesized script are, in this order: the opening
\* line, the binding of the rendering library, the binding of its DOM
\* renderer, the entries of data.imports, the creation of the container, its
\* attachment to the document body, the element statement holding data.code,
\* the DOM-renderer invocation with the completion callback, and the closing
\* line; so every import entry comes before the element statement.
C16_StatementOrder ==
    (script.err = "none" /\ script.text # <<>>) =>
        LET ls == split(script.text)
            imports == data.imports
            code == data.code
        IN  \E el \in { ElementOpen \o code \o <<";">>,
                         ElementOpen \o <<"(">> \o code \o <<")", "(", ")", ";">> } :
                ls = <<LineOpen, LineReact, LineReactDOM>> \o imports
                         \o <<LineContainer, LineAppend, el, LineRender, LineClose>>

\* C16 witness: a script synthesized from a thunk and two import entries.
C16_Witness ==
    /\ script.err = "none" /\ script.text # <<>>
    /\ data.code = CodeThunk
    /\ Len(data.imports) = 2

\* C17: a render call returns only in a step in which its pending
\* execution calls back, and what it returns is the container that step
\* attached to the document and delivered; a suspended call otherwise ends
\* only by a timeout or an error of the execution, and stays suspended until
\* then.
C17_ReturnsOnCallbackOnly ==
    [][\A c \in CallIds :
          /\ (calls[c].pc # "returned" /\ calls'[c].pc = "returned") =>
                 /\ calls[c].pc = "awaiting"
                 /\ c \in inFlight /\ c \notin inFlight'
                 /\ Len(document') = Len(document) + 1
                 /\ calls'[c].delivered = document'[Len(document')]
                 /\ calls'[c].result = calls'[c].delivered
          /\ (calls[c].pc = "awaiting" /\ calls'[c].pc = "failed") =>
                 \/ calls'[c].error \in {"TimeoutError", "RemoteExecutionError",
                                         "SessionError"}
                 \/ calls'[c].delivered # 0
          /\ (calls[c].pc = "awaiting" /\ c \in inFlight') =>
                 calls'[c].pc = "awaiting"]_vars

\* C17 witness: two render calls have returned, each its own container.
C17_Witness ==
    /\ \A c \in 1..2 : calls[c].pc = "returned" /\ calls[c].result # 0
    /\ calls[1].result # calls[2].result

\* C18: once teardown has written the report, no step merges into the
\* coverage map or changes it; the map the report was written from is the
\* map as it stays, and it holds one merge for every render call whose
\* execution has called back, also when a call is still suspended.
C18_NoMergeAfterReport ==
    [][/\ Len(reports) >= 1 =>
              /\ merges' = merges
              /\ coverageMap' = coverageMap
       /\ Len(reports') >= 1 =>
              /\ \A i \in 1..Len(reports') : reports'[i].map = coverageMap'
              /\ merges' = Cardinality({c \in CallIds : calls'[c].delivered # 0})]_vars

\* C18 witness: the report has been written with the coverage of a render
\* that returned, while another render call made in the Ready state is still
\* suspended.
C18_Witness ==
    /\ Len(reports) = 1
    /\ reports[1].map.data # EmptyMap
    /\ \E c \in CallIds : calls[c].pc = "returned"
    /\ \E c \in CallIds : calls[c].calledIn = "Ready" /\ calls[c].pc = "awaiting"

\* C19: a render call made while the environment is Uninitialized or
\* SettingUp has failed at once, without calling executeAsyncScript and
\* without a result to merge; such a call leaves setup able to go on, and
\* once setup has returned the environment is Ready with its coverage map.
C19_EarlyRenderFails ==
    /\ \A c \in CallIds :
          calls[c].calledIn \in {"Uninitialized", "SettingUp"} =>
              /\ calls[c].pc = "failed"
              /\ calls[c].error \in {"TypeError", "CompileError"}
              /\ ~calls[c].issued
              /\ calls[c].delivered = 0
              /\ c \notin inFlight
    /\ (setupPc = "idle" /\ teardownPc = "idle") => ENABLED SetupBegin
    /\ setupPc = "awaitSuper" => ENABLED SetupFinish
    /\ (setupPc = "done" /\ teardownPc = "idle") =>
          /\ Lifecycle = "Ready"
          /\ coverageMap.defined

\* C19 witness: one render call was made before setup and one during it,
\* both failed, and the environment is Ready with an empty coverage map.
C19_Witness ==
    /\ calls[1].calledIn = "Uninitialized" /\ calls[1].error = "TypeError"
    /\ calls[2].calledIn = "SettingUp" /\ calls[2].error = "TypeError"
    /\ Lifecycle = "Ready"
    /\ coverageMap.data = EmptyMap /\ merges = 0

\* C20 as stated: every step in which an execution that started in the
\* browser settles (by its callback, a remote error or the timeout) adds one
\* container to the document.
C20_EveryExecutionAttaches ==
    [][\A c \in CallIds :
          (c \in inFlight /\ c \notin inFlight' /\ calls'[c].error # "SessionError") =>
              Len(document') = Len(document) + 1]_vars

\* C20 as amended: the document only grows, by one container per step, each
\* new one different from all those attached before and attached by an
\* execution that settles in that step; every execution that calls back
\* attaches one and delivers it (one that fails or hangs before the
\* container statements attaches none); the container registry stays empty.
C20_ContainersAccumulate ==
    [][/\ Len(document') \in {Len(document), Len(document) + 1}
       /\ \A i \in 1..Len(document) : document'[i] = document[i]
       /\ Len(document') = Len(document) + 1 =>
              /\ \A i \in 1..Len(document) : document[i] # document'[Len(document')]
              /\ \E c \in inFlight : c \notin inFlight' /\ calls'[c].error # "SessionError"
       /\ \A c \in CallIds :
              (calls[c].delivered = 0 /\ calls'[c].delivered # 0) =>
                  /\ Len(document') = Len(document) + 1
                  /\ calls'[c].delivered = document'[Len(document')]
       /\ containers'.items = <<>>]_vars

\* C20 witness: two executions have attached a container each, one that
\* returned and one that timed out, the environment is Closed, both
\* containers are still in the document and the registry is empty.
C20_Witness ==
    /\ Len(document) = 2 /\ document[1] # document[2]
    /\ \E c \in CallIds : calls[c].pc = "returned"
    /\ \E c \in CallIds : calls[c].error = "TimeoutError"
    /\ Lifecycle = "Closed"
    /\ containers.defined /\ containers.items = <<>>

=============================================================================
